---------------------------- MODULE Spec2Model ----------------------------
(***************************************************************************)
(* A model of the NDPSO optimizer of src/wasm/include/NDPSO.cpp:           *)
(* initSwarm, getGlobalBest, optimize and the parameter sweep              *)
(* searchParameters.                                                       *)
(*                                                                         *)
(* Two specifications share the optimize actions:                          *)
(*   Spec       a client calls optimize up to MaxCalls times on one        *)
(*              optimizer instance;                                        *)
(*   SpecSweep  a client calls searchParameters once.                      *)
(*                                                                         *)
(* Particle, Comparator, the listener and the setters live in headers that *)
(* are not part of the translated source; they are modelled from their     *)
(* documented contracts: a particle moves to any position, the comparator  *)
(* prefers the smaller fitness under MINIMIZE and the larger under         *)
(* MAXIMIZE, the listener is a sink that returns, a setter stores its      *)
(* argument.  The swarm size is at least one.                              *)
(*                                                                         *)
(* Numbers.  The sweep's loop variables are C floats driven by double      *)
(* constants; they are modelled in fixed point, one unit being 2^-30, with *)
(* the rounding to a 24-bit significand that the assignment to a float     *)
(* performs.  The decaying inertia is kept as the exact product            *)
(* base * num / den; the rounding of that product is abstracted.           *)
(***************************************************************************)
EXTENDS Integers, Sequences, FiniteSets, TLC

(* ------------------------------ bounds --------------------------------- *)

\* largest swarmSize a constructor call chooses
MaxSwarm == 2
\* largest maxIterations a constructor call chooses
MaxIter == 2
\* positions a particle can take are 0..MaxPos
MaxPos == 2
\* optimize calls a client makes on one instance
MaxCalls == 2

(* --------------------------- float arithmetic -------------------------- *)

\* one unit of the fixed-point representation is 2^-30
FixOne == 2^30

\* floor of the decimal t/10 in units: the value of a literal such as 0.2
\* or 0.9, whose true value lies strictly between this and the next unit
\* (except for 0.5, which is exact)
DecimalTenths(t) == t * (FixOne \div 10) + (t * (FixOne % 10)) \div 10

\* the spacing of floats around n units: 2^-23 times the power of two below
Ulp(n) ==
    IF n >= 2^30 THEN 2^7
    ELSE IF n >= 2^29 THEN 2^6
    ELSE IF n >= 2^28 THEN 2^5
    ELSE IF n >= 2^27 THEN 2^4
    ELSE 2^3

\* conversion to float (round to nearest) of a value whose floor is n units
\* and whose fraction of a unit is not zero when n lies on a midpoint
RoundToFloat(n) == LET u == Ulp(n) IN u * ((n + u \div 2) \div u)

\* float c = 0.1
SweepFirst == RoundToFloat(DecimalTenths(1))

\* a mutated step: the sum is not rounded to a float
SweepStepUnrounded(c) == c + DecimalTenths(2)

\* c += 0.2: the sum is formed in double and stored to the float
SweepStep(c) == RoundToFloat(c + DecimalTenths(2))

\* c <= 0.9: the float is compared with the double 0.9
SweepContinues(c) == c <= DecimalTenths(9)

(* ------------------------------ particles ------------------------------ *)

MINIMIZE == "MINIMIZE"
MAXIMIZE == "MAXIMIZE"
\* any value of the objType field other than the two enumerators
OTHEROBJ == "OTHER"

ValidObjTypes == {MINIMIZE, MAXIMIZE}
ObjTypes == ValidObjTypes \cup {OTHEROBJ}

Positions == 0..MaxPos

\* the fitness a particle caches for its position (two positions tie)
Objective(p) == p \div 2

\* a particle: its position, its cached fitness, and the optimize call whose
\* initSwarm constructed it (an observer's tag, read by no operation)
MkParticle(p, call) == [position |-> p, fitness |-> Objective(p), born |-> call]

\* Particle(numDimensions, possibleFacs, this): any position
NewParticles(call) == {MkParticle(p, call) : p \in Positions}

\* particle.update(gBest): the particle moves to any position and caches
\* that position's fitness
Updated(particle) == {MkParticle(p, particle.born) : p \in Positions}

\* a local variable that holds no particle (not yet constructed / out of scope)
NoParticle == [position |-> 0 - 1, fitness |-> 0 - 1, born |-> 0]

\* the problem variants of ProblemData::type
ProblemTypes == {"typeA", "typeB"}

\* ProblemData: its objType and type (the cost matrix is fixed)
MkData(objType, type) == [objType |-> objType, type |-> type]

\* no problem data bound yet
NoData == MkData("none", "none")

\* AssignmentStrategy::assign(costs, facilities, type) for two customers:
\* a deterministic function of the position and the problem type
AssignmentStrategyAssign(facilities, type) ==
    <<facilities % 2, (facilities + (IF type = "typeA" THEN 0 ELSE 1)) % 2>>

\* ObjectiveStrategy::calcObjective(costs, assignments, kind): the sum of the
\* assignment for one problem type, its largest entry for the other; a kind
\* that is no problem type selects neither
ObjectiveStrategyCalcObjective(assignments, kind) ==
    IF kind = "typeA" THEN assignments[1] + assignments[2]
    ELSE IF kind = "typeB"
         THEN (IF assignments[1] > assignments[2] THEN assignments[1]
               ELSE assignments[2])
         ELSE 0 - 1

\* ProblemResults: fitness, position, customerAssignments, type, objType, and
\* the optimize call that built it (an observer's tag, read by no operation)
NoResults == [fitness |-> 0 - 1, position |-> 0 - 1,
              customerAssignments |-> << >>, type |-> "none",
              objType |-> "none", call |-> 0]

(* ------------------------------ comparator ----------------------------- *)

\* comparator(left, right): is left preferred over right
ComparatorCall(type, left, right) ==
    IF type = MINIMIZE THEN left < right
    ELSE IF type = MAXIMIZE THEN left > right
    ELSE FALSE

(* --------------------------- global-best scan --------------------------- *)

\* minFitness::operator()
minFitness(left, right) == left.fitness < right.fitness

\* std::min_element: index of the first smallest element
RECURSIVE MinElementFrom(_, _, _)
MinElementFrom(s, it, smallest) ==
    IF it > Len(s) THEN smallest
    ELSE MinElementFrom(s, it + 1,
                        IF minFitness(s[it], s[smallest]) THEN it ELSE smallest)

\* std::max_element: index of the first largest element
RECURSIVE MaxElementFrom(_, _, _)
MaxElementFrom(s, it, largest) ==
    IF it > Len(s) THEN largest
    ELSE MaxElementFrom(s, it + 1,
                        IF minFitness(s[largest], s[it]) THEN it ELSE largest)

\* a mutated scan: the two directions exchanged
GetGlobalBestSwapped(s, objType) ==
    IF objType = MINIMIZE THEN s[MaxElementFrom(s, 2, 1)]
    ELSE s[MinElementFrom(s, 2, 1)]

\* NDPSO::getGlobalBest on a non-empty swarm and a recognised objType
GetGlobalBest(s, objType) ==
    IF objType = MINIMIZE THEN s[MinElementFrom(s, 2, 1)]
    ELSE s[MaxElementFrom(s, 2, 1)]

(* ------------------------------ initSwarm ------------------------------ *)

\* a mutated initSwarm: the old particles are kept
ClearSwarmKeeping(old) == old

\* NDPSO::initSwarm, lines 196-198: a populated swarm is cleared
ClearSwarm(old) == IF Len(old) > 0 THEN << >> ELSE old

(* ------------------------------- inertia ------------------------------- *)

\* the value base * num / den
MkInertia(base) == [base |-> base, num |-> 1, den |-> 1]

\* inertia *= inertialDiscount
Decay(in, disc) == [in EXCEPT !.num = @ * disc[1], !.den = @ * disc[2]]

\* inertial discounts a constructor call chooses, as <<numerator, denominator>>
Discounts == {<<1, 2>>, <<2, 3>>}

\* inertia values a constructor call chooses (0.5 and 0.7 as floats)
Inertias == {RoundToFloat(DecimalTenths(5)), RoundToFloat(DecimalTenths(7))}

\* social and cognitive value a constructor call chooses (0.3 as a float)
Coefficients == {RoundToFloat(DecimalTenths(3))}

\* the observer has no fitness to report
NoFitness == 0 - 1

\* the fitness of the set fs that the direction objType prefers to the others
BestOf(fs, objType) ==
    CHOOSE f \in fs :
        \A g \in fs : IF objType = MINIMIZE THEN f <= g ELSE f >= g

(* ------------------------------ accessors ------------------------------ *)

Million == 1000000

\* std::to_string(float), "%f": the decimal text of the float n / 2^30 with
\* six digits after the point, held as its count of millionths; the digit
\* after the sixth rounds to nearest, ties to even.  The product
\* n * 10^6 / 2^30 = n * 15625 / 2^24 is taken in pieces that stay in range.
FloatToString(n) ==
    LET q == n \div 2^24
        r == n % 2^24
        a == (r \div 2^12) * 15625
        f == (a % 2^12) * 2^12 + (r % 2^12) * 15625
        whole == q * 15625 + a \div 2^12 + f \div 2^24
        rest == f % 2^24
    IN  <<"f", IF rest > 2^23 \/ (rest = 2^23 /\ whole % 2 = 1)
               THEN whole + 1 ELSE whole>>

\* the same for the float nearest the ratio disc[1] / disc[2]
RatioToString(disc) ==
    LET whole == (disc[1] * Million) \div disc[2]
        rest == (disc[1] * Million) % disc[2]
    IN  <<"f", IF 2 * rest > disc[2] \/ (2 * rest = disc[2] /\ whole % 2 = 1)
               THEN whole + 1 ELSE whole>>

\* std::to_string(int): the decimal digits of n
IntToString(n) == <<"d", n>>

\* no accessor called yet since the last optimize call began
NoAnswer == [kind |-> "none", arg |-> 0, value |-> 0]

(* -------------------------------- state -------------------------------- *)

VARIABLES
    swarmSize, social, cognitive, inertia, initialInertia, inertialDiscount,
    maxIterations,      \* the optimizer's parameters
    data,               \* this->data (its objType)
    comparator,         \* this->comparator (its direction)
    swarm,              \* this->swarm
    gBest, uBest, count, idx, results,   \* locals of optimize and initSwarm
    c1, c2, c3, i, done,                 \* locals of searchParameters
    problem,            \* the data argument of searchParameters
    pc,                 \* position of the running call
    caller,             \* who calls optimize: "client" or "sweep"
    calls,              \* optimize invocations so far
    iters,              \* iteration bodies begun in the current optimize call
    points,             \* grid points configured so far by the sweep
    configuredInertia,  \* the inertia last given to a constructor or setter
    returns,            \* optimize calls that have returned
    bestInitial,        \* best fitness of the swarm as initSwarm built it
    bestSelected,       \* best fitness getGlobalBest has selected in this call
    answer,             \* what the last accessor call since optimize returned
    lastEvent, nAlgorithm, nResults, particleLog, lastResults  \* the listener

params == <<swarmSize, social, cognitive, initialInertia, inertialDiscount,
            maxIterations, configuredInertia>>
observer == <<returns, bestInitial, bestSelected>>
locals == <<gBest, uBest, count, idx, results>>
sweepLocals == <<c1, c2, c3, i, done, problem>>
listener == <<lastEvent, nAlgorithm, nResults, particleLog, lastResults>>
vars == <<params, inertia, data, comparator, swarm, locals, sweepLocals, pc,
          caller, calls, iters, points, listener, observer, answer>>

\* the state a constructor leaves, before any call, for a swarmSize
\* argument among sizes
ConstructedWith(sizes) ==
    /\ swarmSize \in sizes
    /\ social \in Coefficients
    /\ cognitive \in Coefficients
    /\ initialInertia \in Inertias
    /\ configuredInertia = initialInertia
    /\ inertia = MkInertia(initialInertia)
    /\ inertialDiscount \in Discounts
    /\ maxIterations \in (0 - 1)..MaxIter
    /\ data = NoData
    /\ comparator = "none"
    /\ swarm = << >>
    /\ gBest = NoParticle /\ uBest = NoParticle /\ count = 0 /\ idx = 0
    /\ results = NoResults
    /\ c1 = 0 /\ c2 = 0 /\ c3 = 0 /\ i = 0 /\ done = 0
    /\ pc = "idle"
    /\ calls = 0 /\ iters = 0 /\ points = 0
    /\ returns = 0 /\ bestInitial = NoFitness /\ bestSelected = NoFitness
    /\ lastEvent = "none" /\ nAlgorithm = 0 /\ nResults = 0
    /\ particleLog = << >> /\ lastResults = NoResults
    /\ answer = NoAnswer

\* the same with a positive swarmSize
Constructed == ConstructedWith(1..MaxSwarm)

Init == Constructed /\ caller = "client" /\ problem = NoData


(* ------------------------------- optimize ------------------------------ *)

\* optimize, lines 128-130, and initSwarm up to its loop: bind the data, set
\* the comparator's direction, clear the swarm, i = 0 (held in idx).
\* Comparator::setType either stores an unrecognised objType or rejects it
\* (its contract calls that a configuration error).
OptimizeEnter(d) ==
    /\ data' = d
    /\ calls' = calls + 1
    /\ iters' = 0
    /\ particleLog' = << >>
    /\ \/ /\ comparator' = d.objType
          /\ swarm' = ClearSwarm(swarm)
          /\ idx' = 0
          /\ pc' = IF 0 < swarmSize THEN "init" ELSE "best"
       \/ /\ d.objType \notin ValidObjTypes
          /\ pc' = "thrown"
          /\ UNCHANGED <<comparator, swarm, idx>>
    /\ results' = NoResults
    /\ answer' = NoAnswer
    /\ bestInitial' = NoFitness /\ bestSelected' = NoFitness
    /\ UNCHANGED <<params, inertia, gBest, uBest, count, sweepLocals,
                   caller, points, returns, lastEvent, nAlgorithm, nResults,
                   lastResults>>

\* initSwarm, lines 202-205: one more particle is constructed and pushed
InitSwarmPush ==
    /\ pc = "init"
    /\ \E particle \in NewParticles(calls) : swarm' = Append(swarm, particle)
    /\ idx' = idx + 1
    /\ pc' = IF idx' < swarmSize THEN "init" ELSE "best"
    /\ UNCHANGED <<params, inertia, data, comparator, gBest, uBest, count,
                   results, sweepLocals, caller, answer, calls, iters, points,
                   listener, observer>>

\* Particle::getCustomerAssignments(): the assignment recomputed for the
\* particle's position and the bound problem type
GetCustomerAssignments(particle) ==
    AssignmentStrategyAssign(particle.position, data.type)

\* optimize, lines 152-159: the results built from the all-time best
BuildResults(best) ==
    [fitness |-> best.fitness,
     position |-> best.position,
     customerAssignments |-> GetCustomerAssignments(best),
     type |-> data.type,
     objType |-> data.objType,
     call |-> calls]

\* a mutated setup: the inertia of the previous call is kept
InitialBestNoReset ==
    /\ pc = "best"
    /\ IF data.objType \in ValidObjTypes
       THEN /\ gBest' = GetGlobalBest(swarm, data.objType)
            /\ uBest' = gBest'
            /\ count' = 1
            /\ pc' = "loop"
            /\ bestInitial' = BestOf({swarm[k].fitness : k \in 1..Len(swarm)},
                                     data.objType)
            /\ bestSelected' = gBest'.fitness
            /\ UNCHANGED <<inertia, idx, results>>
       ELSE /\ pc' = "thrown"
            /\ UNCHANGED <<inertia, locals, bestInitial, bestSelected>>
    /\ UNCHANGED <<params, data, comparator, swarm, sweepLocals, caller, answer,
                   calls, iters, points, listener, returns>>

\* a mutated setup: an unrecognised objType is treated as MAXIMIZE
InitialBestDefaulting ==
    /\ pc = "best"
    /\ gBest' = GetGlobalBest(swarm, data.objType)
    /\ uBest' = gBest'
    /\ inertia' = MkInertia(initialInertia)
    /\ count' = 1
    /\ pc' = "loop"
    /\ bestInitial' = BestOf({swarm[k].fitness : k \in 1..Len(swarm)},
                             data.objType)
    /\ bestSelected' = gBest'.fitness
    /\ UNCHANGED <<idx, results>>
    /\ UNCHANGED <<params, data, comparator, swarm, sweepLocals, caller, answer,
                   calls, iters, points, listener, returns>>

\* optimize, lines 131-139: the initial global best (getGlobalBest throws on
\* an unrecognised objType), the all-time best, the inertia reset, count = 1
InitialBest ==
    /\ pc = "best"
    /\ IF data.objType \in ValidObjTypes
       THEN /\ gBest' = GetGlobalBest(swarm, data.objType)
            /\ uBest' = gBest'
            /\ inertia' = MkInertia(initialInertia)
            /\ count' = 1
            /\ pc' = "loop"
            /\ bestInitial' = BestOf({swarm[k].fitness : k \in 1..Len(swarm)},
                                     data.objType)
            /\ bestSelected' = gBest'.fitness
            /\ UNCHANGED <<idx, results>>
       ELSE /\ pc' = "thrown"
            /\ UNCHANGED <<inertia, locals, bestInitial, bestSelected>>
    /\ UNCHANGED <<params, data, comparator, swarm, sweepLocals, caller, answer,
                   calls, iters, points, listener, returns>>

\* a mutated loop head: the inertia is not decayed before the updates
LoopTestNoDecay ==
    /\ pc = "loop"
    /\ IF count <= maxIterations
       THEN /\ idx' = 1
            /\ iters' = iters + 1
            /\ pc' = "update"
            /\ UNCHANGED <<inertia, gBest, uBest, count, results, returns>>
       ELSE /\ results' = BuildResults(uBest)
            /\ gBest' = NoParticle /\ uBest' = NoParticle
            /\ count' = 0 /\ idx' = 0
            /\ pc' = "returned"
            /\ returns' = returns + 1
            /\ UNCHANGED <<inertia, iters>>
    /\ UNCHANGED <<params, data, comparator, swarm, sweepLocals, caller, answer,
                   calls, points, listener, bestInitial, bestSelected>>

\* a mutated loop head: the loop stops one iteration early
LoopTestShort ==
    /\ pc = "loop"
    /\ IF count < maxIterations
       THEN /\ inertia' = Decay(inertia, inertialDiscount)
            /\ idx' = 1
            /\ iters' = iters + 1
            /\ pc' = "update"
            /\ UNCHANGED <<gBest, uBest, count, results, returns>>
       ELSE /\ results' = BuildResults(uBest)
            /\ gBest' = NoParticle /\ uBest' = NoParticle
            /\ count' = 0 /\ idx' = 0
            /\ pc' = "returned"
            /\ returns' = returns + 1
            /\ UNCHANGED <<inertia, iters>>
    /\ UNCHANGED <<params, data, comparator, swarm, sweepLocals, caller, answer,
                   calls, points, listener, bestInitial, bestSelected>>

\* a mutated loop head: the body runs once before the first test
LoopTestAtLeastOnce ==
    /\ pc = "loop"
    /\ IF count <= maxIterations \/ count = 1
       THEN /\ inertia' = Decay(inertia, inertialDiscount)
            /\ idx' = 1
            /\ iters' = iters + 1
            /\ pc' = "update"
            /\ UNCHANGED <<gBest, uBest, count, results, returns>>
       ELSE /\ results' = BuildResults(uBest)
            /\ gBest' = NoParticle /\ uBest' = NoParticle
            /\ count' = 0 /\ idx' = 0
            /\ pc' = "returned"
            /\ returns' = returns + 1
            /\ UNCHANGED <<inertia, iters>>
    /\ UNCHANGED <<params, data, comparator, swarm, sweepLocals, caller, answer,
                   calls, points, listener, bestInitial, bestSelected>>

\* a mutated loop head: the results are built from the last global best
LoopTestFromGBest ==
    /\ pc = "loop"
    /\ IF count <= maxIterations
       THEN /\ inertia' = Decay(inertia, inertialDiscount)
            /\ idx' = 1
            /\ iters' = iters + 1
            /\ pc' = "update"
            /\ UNCHANGED <<gBest, uBest, count, results, returns>>
       ELSE /\ results' = BuildResults(gBest)
            /\ gBest' = NoParticle /\ uBest' = NoParticle
            /\ count' = 0 /\ idx' = 0
            /\ pc' = "returned"
            /\ returns' = returns + 1
            /\ UNCHANGED <<inertia, iters>>
    /\ UNCHANGED <<params, data, comparator, swarm, sweepLocals, caller, answer,
                   calls, points, listener, bestInitial, bestSelected>>

\* a mutated loop head: the decay is applied to the initial inertia too
LoopTestDecayInitial ==
    /\ pc = "loop"
    /\ IF count <= maxIterations
       THEN /\ inertia' = Decay(inertia, inertialDiscount)
            /\ initialInertia' =
                   (initialInertia \div inertialDiscount[2]) * inertialDiscount[1]
            /\ idx' = 1
            /\ iters' = iters + 1
            /\ pc' = "update"
            /\ UNCHANGED <<gBest, uBest, count, results, returns>>
       ELSE /\ results' = BuildResults(uBest)
            /\ gBest' = NoParticle /\ uBest' = NoParticle
            /\ count' = 0 /\ idx' = 0
            /\ pc' = "returned"
            /\ returns' = returns + 1
            /\ UNCHANGED <<inertia, initialInertia, iters>>
    /\ UNCHANGED <<swarmSize, social, cognitive, inertialDiscount,
                   maxIterations, configuredInertia, data, comparator, swarm,
                   sweepLocals, caller, answer, calls, points, listener,
                   bestInitial, bestSelected>>

\* optimize, lines 139-140 and 152-160: the loop test; then either the decay
\* that opens an iteration, or the results built from the all-time best
LoopTest ==
    /\ pc = "loop"
    /\ IF count <= maxIterations
       THEN /\ inertia' = Decay(inertia, inertialDiscount)
            /\ idx' = 1
            /\ iters' = iters + 1
            /\ pc' = "update"
            /\ UNCHANGED <<gBest, uBest, count, results, returns>>
       ELSE /\ results' = BuildResults(uBest)
            /\ gBest' = NoParticle /\ uBest' = NoParticle
            /\ count' = 0 /\ idx' = 0
            /\ pc' = "returned"
            /\ returns' = returns + 1
            /\ UNCHANGED <<inertia, iters>>
    /\ UNCHANGED <<params, data, comparator, swarm, sweepLocals, caller, answer,
                   calls, points, listener, bestInitial, bestSelected>>

\* a mutated update: the global best is refreshed after each particle
UpdateParticleRefreshing ==
    /\ pc = "update"
    /\ idx <= Len(swarm)
    /\ \E p \in Updated(swarm[idx]) : swarm' = [swarm EXCEPT ![idx] = p]
    /\ gBest' = GetGlobalBest(swarm', data.objType)
    /\ idx' = idx + 1
    /\ UNCHANGED <<params, inertia, data, comparator, uBest, count,
                   results, sweepLocals, pc, caller, answer, calls, iters,
                   points, listener, observer>>

\* a mutated update: the all-time best is the particle itself, not a copy
UpdateParticleAliased ==
    /\ pc = "update"
    /\ idx <= Len(swarm)
    /\ \E p \in Updated(swarm[idx]) :
         /\ swarm' = [swarm EXCEPT ![idx] = p]
         /\ uBest' = IF uBest = swarm[idx] THEN p ELSE uBest
    /\ idx' = idx + 1
    /\ UNCHANGED <<params, inertia, data, comparator, gBest, count,
                   results, sweepLocals, pc, caller, answer, calls, iters,
                   points, listener, observer>>

\* optimize, lines 141-143: particle.update(gBest) for the next particle
UpdateParticle ==
    /\ pc = "update"
    /\ idx <= Len(swarm)
    /\ \E p \in Updated(swarm[idx]) : swarm' = [swarm EXCEPT ![idx] = p]
    /\ idx' = idx + 1
    /\ UNCHANGED <<params, inertia, data, comparator, gBest, uBest, count,
                   results, sweepLocals, pc, caller, answer, calls, iters, points,
                   listener, observer>>

\* a mutated selection: the all-time best is replaced unconditionally
SelectBestAlways ==
    /\ pc = "update"
    /\ idx > Len(swarm)
    /\ gBest' = GetGlobalBest(swarm, data.objType)
    /\ uBest' = gBest'
    /\ particleLog' = Append(particleLog, [best |-> uBest', count |-> count])
    /\ lastEvent' = "particle"
    /\ count' = count + 1
    /\ pc' = "loop"
    /\ bestSelected' = BestOf({bestSelected, gBest'.fitness}, data.objType)
    /\ UNCHANGED <<params, inertia, data, comparator, swarm, idx, results,
                   sweepLocals, caller, answer, calls, iters, points, nAlgorithm,
                   nResults, lastResults, returns, bestInitial>>

\* optimize, lines 144-149 and the loop's count++: the new global best, the
\* all-time best if the comparator prefers the new one, the notification
SelectBest ==
    /\ pc = "update"
    /\ idx > Len(swarm)
    /\ gBest' = GetGlobalBest(swarm, data.objType)
    /\ uBest' = IF ComparatorCall(comparator, gBest'.fitness, uBest.fitness)
                THEN gBest' ELSE uBest
    /\ particleLog' = Append(particleLog, [best |-> uBest', count |-> count])
    /\ lastEvent' = "particle"
    /\ count' = count + 1
    /\ pc' = "loop"
    /\ bestSelected' = BestOf({bestSelected, gBest'.fitness}, data.objType)
    /\ UNCHANGED <<params, inertia, data, comparator, swarm, idx, results,
                   sweepLocals, caller, answer, calls, iters, points, nAlgorithm,
                   nResults, lastResults, returns, bestInitial>>

(* -------------------------------- client ------------------------------- *)

\* a client calls optimize with some problem data, on a fresh instance or
\* after an earlier call has returned or thrown
ClientCall ==
    /\ caller = "client"
    /\ pc \in {"idle", "returned", "thrown"}
    /\ calls < MaxCalls
    /\ \E t \in ObjTypes, ty \in ProblemTypes : OptimizeEnter(MkData(t, ty))

Next ==
    \/ ClientCall \/ InitSwarmPush \/ InitialBest \/ LoopTest
    \/ UpdateParticle \/ SelectBest

Spec == Init /\ [][Next]_vars


(* ------------------------------ accessors ------------------------------ *)

\* a mutated serialisation: the current, decayed inertia is written
GetJSONParametersDecayed ==
    << <<"inertia", FloatToString((inertia.base \div inertia.den) * inertia.num)>>,
       <<"cognitive", FloatToString(cognitive)>>,
       <<"social", FloatToString(social)>>,
       <<"inertialDiscount", RatioToString(inertialDiscount)>>,
       <<"swarmSize", IntToString(swarmSize)>>,
       <<"maxIterations", IntToString(maxIterations)>> >>

\* getJSONParameters, lines 77-87: the fields in the order they are appended
GetJSONParameters ==
    << <<"inertia", FloatToString(initialInertia)>>,
       <<"cognitive", FloatToString(cognitive)>>,
       <<"social", FloatToString(social)>>,
       <<"inertialDiscount", RatioToString(inertialDiscount)>>,
       <<"swarmSize", IntToString(swarmSize)>>,
       <<"maxIterations", IntToString(maxIterations)>> >>

\* a mutated objective: the objective strategy is given data.objType
CalcObjectiveByObjType(facilities) ==
    ObjectiveStrategyCalcObjective(
        AssignmentStrategyAssign(facilities, data.type), data.objType)

\* calcObjective, lines 186-189: the assignment for the facilities and the
\* problem type, scored by the objective strategy for the problem type
CalcObjective(facilities) ==
    ObjectiveStrategyCalcObjective(
        AssignmentStrategyAssign(facilities, data.type), data.type)

\* a client calls getJSONParameters between optimize calls
GetJSONParametersCall ==
    /\ caller = "client"
    /\ pc \in {"idle", "returned", "thrown"}
    /\ answer' = [kind |-> "json", arg |-> 0, value |-> GetJSONParameters]
    /\ UNCHANGED <<params, inertia, data, comparator, swarm, locals,
                   sweepLocals, pc, caller, calls, iters, points, listener,
                   observer>>

\* a client calls calcObjective on the data the last optimize call bound
CalcObjectiveCall ==
    /\ caller = "client"
    /\ pc \in {"returned", "thrown"}
    /\ \E facilities \in Positions :
         answer' = [kind |-> "objective", arg |-> facilities,
                    value |-> CalcObjective(facilities)]
    /\ UNCHANGED <<params, inertia, data, comparator, swarm, locals,
                   sweepLocals, pc, caller, calls, iters, points, listener,
                   observer>>

\* a one-particle optimizer and a client that also calls the accessors
AccessorInit == Init /\ swarmSize = 1

AccessorNext == Next \/ GetJSONParametersCall \/ CalcObjectiveCall

\* optimize calls with accessor calls between them
SpecAccessors == AccessorInit /\ [][AccessorNext]_vars


(* --------------------------- searchParameters -------------------------- *)

\* trials per grid point
NumTrials == 10

\* configurations searchParameters is started from: one particle, no or two
\* iterations, any coefficients, any objType, one problem type
SweepSwarmSizes == {1}
SweepIterations == {0, 2}
SweepProblems == {MkData(t, "typeA") : t \in ObjTypes}

\* setInertia(c): the configured inertia, which is also the current one
SetInertia(c) ==
    inertia' = MkInertia(c) /\ initialInertia' = c /\ configuredInertia' = c

\* searchParameters, lines 99-101: done = 0, c1 = 0.1
SweepEnter ==
    /\ caller = "sweep"
    /\ pc = "idle"
    /\ c1' = SweepFirst
    /\ done' = 0
    /\ pc' = "L1"
    /\ UNCHANGED <<params, inertia, data, comparator, swarm, locals, c2, c3,
                   i, problem, caller, answer, calls, iters, points, listener,
                   observer>>

\* line 101-103: the test of the inertia loop; setInertia(c1), c2 = 0.1
SweepLoop1 ==
    /\ pc = "L1"
    /\ IF SweepContinues(c1)
       THEN /\ SetInertia(c1)
            /\ c2' = SweepFirst
            /\ pc' = "L2"
       ELSE /\ pc' = "sweepDone"
            /\ UNCHANGED <<inertia, initialInertia, configuredInertia, c2>>
    /\ UNCHANGED <<swarmSize, social, cognitive, inertialDiscount,
                   maxIterations, data, comparator, swarm, locals, c1, c3, i,
                   done, problem, caller, answer, calls, iters, points, listener,
                   observer>>

\* line 103-105: the test of the cognitive loop; setCognitive(c2), c3 = 0.1;
\* at its end c1 += 0.2
SweepLoop2 ==
    /\ pc = "L2"
    /\ IF SweepContinues(c2)
       THEN /\ cognitive' = c2
            /\ c3' = SweepFirst
            /\ pc' = "L3"
            /\ UNCHANGED c1
       ELSE /\ c1' = SweepStep(c1)
            /\ pc' = "L1"
            /\ UNCHANGED <<cognitive, c3>>
    /\ UNCHANGED <<swarmSize, social, initialInertia, inertialDiscount,
                   maxIterations, configuredInertia, inertia, data,
                   comparator, swarm, locals, c2, i, done, problem, caller, answer,
                   calls, iters, points, listener, observer>>

\* a mutated social loop: setSocial is not called
SweepLoop3NoSocial ==
    /\ pc = "L3"
    /\ IF SweepContinues(c3)
       THEN /\ i' = 0
            /\ points' = points + 1
            /\ pc' = "L4"
            /\ UNCHANGED <<social, c2>>
       ELSE /\ c2' = SweepStep(c2)
            /\ pc' = "L2"
            /\ UNCHANGED <<social, i, points>>
    /\ UNCHANGED <<swarmSize, cognitive, initialInertia, inertialDiscount,
                   maxIterations, configuredInertia, inertia, data,
                   comparator, swarm, locals, c1, c3, done, problem, caller,
                   answer, calls, iters, listener, observer>>

\* line 105-107: the test of the social loop; setSocial(c3), i = 0;
\* at its end c2 += 0.2
SweepLoop3 ==
    /\ pc = "L3"
    /\ IF SweepContinues(c3)
       THEN /\ social' = c3
            /\ i' = 0
            /\ points' = points + 1
            /\ pc' = "L4"
            /\ UNCHANGED c2
       ELSE /\ c2' = SweepStep(c2)
            /\ pc' = "L2"
            /\ UNCHANGED <<social, i, points>>
    /\ UNCHANGED <<swarmSize, cognitive, initialInertia, inertialDiscount,
                   maxIterations, configuredInertia, inertia, data,
                   comparator, swarm, locals, c1, c3, done, problem, caller,
                   answer, calls, iters, listener, observer>>

\* a mutated trial loop: the listener is not told of the algorithm
SweepTrialSilent ==
    /\ pc = "L4"
    /\ IF i < NumTrials
       THEN /\ pc' = "call"
            /\ UNCHANGED <<c3, lastEvent, nAlgorithm>>
       ELSE /\ c3' = SweepStep(c3)
            /\ pc' = "L3"
            /\ UNCHANGED <<lastEvent, nAlgorithm>>
    /\ UNCHANGED <<params, inertia, data, comparator, swarm, locals, c1, c2,
                   i, done, problem, caller, answer, calls, iters, points, nResults,
                   particleLog, lastResults, observer>>

\* line 107-108 and 113: the test of the trial loop; handleAlgorithm;
\* at its end the progress line and c3 += 0.2
SweepTrial ==
    /\ pc = "L4"
    /\ IF i < NumTrials
       THEN /\ lastEvent' = "algorithm"
            /\ nAlgorithm' = nAlgorithm + 1
            /\ pc' = "call"
            /\ UNCHANGED c3
       ELSE /\ c3' = SweepStep(c3)
            /\ pc' = "L3"
            /\ UNCHANGED <<lastEvent, nAlgorithm>>
    /\ UNCHANGED <<params, inertia, data, comparator, swarm, locals, c1, c2,
                   i, done, problem, caller, answer, calls, iters, points, nResults,
                   particleLog, lastResults, observer>>

\* line 109: optimize(data) is entered
SweepCall ==
    /\ pc = "call"
    /\ OptimizeEnter(problem)

\* line 109-111: optimize has returned; handleResults(results), ++done, i++
SweepAfterOptimize ==
    /\ caller = "sweep"
    /\ pc = "returned"
    /\ lastResults' = results
    /\ lastEvent' = "results"
    /\ nResults' = nResults + 1
    /\ done' = done + 1
    /\ i' = i + 1
    /\ pc' = "L4"
    /\ UNCHANGED <<params, inertia, data, comparator, swarm, locals, c1, c2,
                   c3, problem, caller, answer, calls, iters, points, nAlgorithm,
                   particleLog, observer>>

SweepInit ==
    /\ Constructed
    /\ swarmSize \in SweepSwarmSizes
    /\ maxIterations \in SweepIterations
    /\ caller = "sweep"
    /\ problem \in SweepProblems

SweepNext ==
    \/ SweepEnter \/ SweepLoop1 \/ SweepLoop2 \/ SweepLoop3 \/ SweepTrial
    \/ SweepCall \/ SweepAfterOptimize
    \/ InitSwarmPush \/ InitialBest \/ LoopTest \/ UpdateParticle
    \/ SelectBest

SpecSweep == SweepInit /\ [][SweepNext]_vars


(* --------------------------- a failing listener ------------------------ *)

\* optimize, lines 144-149, when handleParticle throws: optimize has no
\* handler, the exception leaves it and its locals are destroyed
SelectBestListenerFails ==
    /\ pc = "update"
    /\ idx > Len(swarm)
    /\ gBest' = NoParticle /\ uBest' = NoParticle
    /\ count' = 0
    /\ lastEvent' = "failed"
    /\ pc' = "thrown"
    /\ UNCHANGED <<params, inertia, data, comparator, swarm, idx, results,
                   sweepLocals, caller, answer, calls, iters, points, nAlgorithm,
                   nResults, particleLog, lastResults, observer>>

\* searchParameters, line 108, when handleAlgorithm throws: the exception
\* leaves searchParameters
SweepTrialListenerFails ==
    /\ pc = "L4"
    /\ i < NumTrials
    /\ lastEvent' = "failed"
    /\ pc' = "thrown"
    /\ UNCHANGED <<params, inertia, data, comparator, swarm, locals,
                   sweepLocals, caller, answer, calls, iters, points, nAlgorithm,
                   nResults, particleLog, lastResults, observer>>

\* searchParameters, line 110, when handleResults throws
SweepAfterOptimizeListenerFails ==
    /\ caller = "sweep"
    /\ pc = "returned"
    /\ lastEvent' = "failed"
    /\ pc' = "thrown"
    /\ UNCHANGED <<params, inertia, data, comparator, swarm, locals,
                   sweepLocals, caller, answer, calls, iters, points, nAlgorithm,
                   nResults, particleLog, lastResults, observer>>

\* a sweep of one-iteration MINIMIZE trials
FailingInit ==
    /\ Constructed
    /\ swarmSize = 1
    /\ maxIterations = 1
    /\ caller = "sweep"
    /\ problem = MkData(MINIMIZE, "typeA")

FailingNext ==
    \/ SweepEnter \/ SweepLoop1 \/ SweepLoop2 \/ SweepLoop3 \/ SweepTrial
    \/ SweepCall \/ SweepAfterOptimize
    \/ InitSwarmPush \/ InitialBest \/ LoopTest \/ UpdateParticle
    \/ SelectBest
    \/ SelectBestListenerFails \/ SweepTrialListenerFails
    \/ SweepAfterOptimizeListenerFails

\* searchParameters with a listener whose notifications may throw
SpecFailing == FailingInit /\ [][FailingNext]_vars

(* ------------------------------ an empty swarm ------------------------- *)

\* what reading *end() of an empty vector can yield: any particle value
GarbageParticles ==
    {[position |-> p, fitness |-> Objective(q), born |-> 0] :
        p \in Positions, q \in Positions}

\* optimize, lines 131-139, on a non-empty swarm
InitialBestFull == swarm # << >> /\ InitialBest

\* optimize, lines 131-139, on an empty swarm: getGlobalBest throws on an
\* unrecognised objType; otherwise min_element / max_element return end()
\* and dereferencing it is undefined: the process crashes, or some particle
\* value is read and the call goes on
InitialBestEmpty ==
    /\ pc = "best"
    /\ swarm = << >>
    /\ IF data.objType \in ValidObjTypes
       THEN \/ /\ pc' = "crashed"
               /\ UNCHANGED <<inertia, locals, bestSelected>>
            \/ \E g \in GarbageParticles :
                 /\ gBest' = g
                 /\ uBest' = g
                 /\ inertia' = MkInertia(initialInertia)
                 /\ count' = 1
                 /\ pc' = "loop"
                 /\ bestSelected' = g.fitness
                 /\ UNCHANGED <<idx, results>>
       ELSE /\ pc' = "thrown"
            /\ UNCHANGED <<inertia, locals, bestSelected>>
    /\ UNCHANGED <<params, data, comparator, swarm, sweepLocals, caller, answer,
                   calls, iters, points, listener, returns, bestInitial>>

\* optimize, lines 144-149, on a non-empty swarm
SelectBestFull == swarm # << >> /\ SelectBest

\* optimize, lines 144-149, on an empty swarm: the same undefined read
SelectBestEmpty ==
    /\ pc = "update"
    /\ idx > Len(swarm)
    /\ swarm = << >>
    /\ \/ /\ pc' = "crashed"
          /\ UNCHANGED <<gBest, uBest, count, particleLog, lastEvent,
                         bestSelected>>
       \/ \E g \in GarbageParticles :
            /\ gBest' = g
            /\ uBest' = IF ComparatorCall(comparator, g.fitness, uBest.fitness)
                        THEN g ELSE uBest
            /\ particleLog' = Append(particleLog,
                                     [best |-> uBest', count |-> count])
            /\ lastEvent' = "particle"
            /\ count' = count + 1
            /\ pc' = "loop"
            /\ bestSelected' = BestOf({bestSelected, g.fitness}, data.objType)
    /\ UNCHANGED <<params, inertia, data, comparator, swarm, idx, results,
                   sweepLocals, caller, answer, calls, iters, points, nAlgorithm,
                   nResults, lastResults, returns, bestInitial>>

\* an optimizer constructed with swarmSize -1, 0 or 1
EmptyInit ==
    /\ ConstructedWith((0 - 1)..1)
    /\ caller = "client"
    /\ problem = NoData

EmptyNext ==
    \/ ClientCall \/ InitSwarmPush \/ InitialBestFull \/ InitialBestEmpty
    \/ LoopTest \/ UpdateParticle \/ SelectBestFull \/ SelectBestEmpty

\* optimize calls on an optimizer whose swarmSize may be non-positive
SpecEmpty == EmptyInit /\ [][EmptyNext]_vars

(* ------------------------------ properties ----------------------------- *)

Range(s) == {s[k] : k \in 1..Len(s)}

\* the number of iterations a call with this maxIterations runs
Rounds == IF maxIterations > 0 THEN maxIterations ELSE 0

\* inertia = initialInertia * inertialDiscount^k
InertiaAfter(k) ==
    /\ inertia.base = initialInertia
    /\ inertia.num * inertialDiscount[2]^k = inertialDiscount[1]^k * inertia.den

\* the fitness f is at least as good as every fitness of the swarm s
Extremal(f, s, objType) ==
    \A k \in 1..Len(s) :
        /\ objType = MINIMIZE => f <= s[k].fitness
        /\ objType = MAXIMIZE => f >= s[k].fitness

\* C1: in every step of an optimize run the all-time best fitness after the
\* step is preferred-or-equal to its value before: not larger under
\* MINIMIZE, not smaller under MAXIMIZE.
C1_MonotonicBest ==
    [][ (uBest # NoParticle /\ uBest' # NoParticle) =>
            /\ data.objType = MINIMIZE => uBest'.fitness <= uBest.fitness
            /\ data.objType = MAXIMIZE => uBest'.fitness >= uBest.fitness ]_vars

\* an iteration has ended whose swarm is worse than the recorded best
C1_Witness ==
    /\ pc = "loop" /\ count > 1
    /\ data.objType = MAXIMIZE
    /\ gBest.fitness < uBest.fitness

\* C2: in every optimize call the inertia is initialInertia when the loop is
\* first tested, and the first decay yields initialInertia * inertialDiscount,
\* whatever earlier calls did to it.
C2_InertiaReset ==
    /\ (pc = "loop" /\ count = 1) => inertia = MkInertia(initialInertia)
    /\ (pc = "update" /\ count = 1) =>
           inertia = Decay(MkInertia(initialInertia), inertialDiscount)

\* the second call's first iteration, after a first call that returned from
\* MaxIter decays
C2_Witness ==
    /\ calls = 2 /\ returns = 1 /\ maxIterations = MaxIter
    /\ pc = "update" /\ count = 1

\* C3: while the particles of iteration k are updated, and after that
\* iteration, inertia = initialInertia * inertialDiscount^k.
C3_InertiaDecay ==
    /\ pc = "update" => count >= 1 /\ iters = count /\ InertiaAfter(count)
    /\ pc = "loop" => InertiaAfter(count - 1)
    /\ pc = "returned" => InertiaAfter(iters)

\* the second particle of the second iteration is about to be updated
C3_Witness == pc = "update" /\ count = 2 /\ idx = 2 /\ Len(swarm) = 2

\* C5: from initSwarm on, through the whole optimize call, the swarm holds
\* exactly swarmSize particles, all constructed by this call.
C5_SwarmSize ==
    pc \in {"best", "loop", "update", "returned"} =>
        /\ Len(swarm) = swarmSize
        /\ \A k \in 1..Len(swarm) : swarm[k].born = calls

\* initSwarm has run in a second call, the first having left its swarm
C5_Witness == calls = 2 /\ returns = 1 /\ pc = "best" /\ swarmSize = 2

\* C6: in an optimize call with a recognised objType the k-th notification
\* carries count k and the all-time best of iteration k, one notification
\* ends each iteration, the call does not throw, and it returns after
\* exactly maxIterations iterations and notifications (none if negative).
C6_ExactIterations ==
    data.objType \in ValidObjTypes =>
        /\ pc # "thrown"
        /\ pc \in {"loop", "update", "returned"} =>
               \A k \in 1..Len(particleLog) : particleLog[k].count = k
        /\ pc = "loop" =>
               /\ count <= Rounds + 1
               /\ iters = count - 1
               /\ Len(particleLog) = iters
               /\ count > 1 => particleLog[count - 1].best = uBest
        /\ pc = "update" =>
               /\ count <= maxIterations
               /\ iters = count
               /\ Len(particleLog) = iters - 1
        /\ pc = "returned" =>
               /\ iters = Rounds
               /\ Len(particleLog) = Rounds

\* a call has returned after MaxIter iterations
C6_Witness ==
    pc = "returned" /\ maxIterations = MaxIter /\ Len(particleLog) = MaxIter

\* C7: with maxIterations = 0 and a recognised objType the call does not
\* throw, never updates a particle, notifies nobody, and returns the fitness
\* and position of the global best of the swarm it initialized.
C7_ZeroIterations ==
    (maxIterations = 0 /\ data.objType \in ValidObjTypes) =>
        /\ pc \notin {"thrown", "update"}
        /\ iters = 0
        /\ particleLog = << >>
        /\ pc = "loop" => uBest = gBest
        /\ pc = "returned" =>
               /\ results.call = calls
               /\ results.fitness = GetGlobalBest(swarm, data.objType).fitness
               /\ results.position = GetGlobalBest(swarm, data.objType).position

\* a zero-iteration call has returned from a swarm of two distinct fitnesses
C7_Witness ==
    /\ maxIterations = 0 /\ pc = "returned"
    /\ Len(swarm) = 2 /\ swarm[1].fitness # swarm[2].fitness

\* C8: on a non-empty swarm getGlobalBest yields a member of the swarm whose
\* fitness is the minimum under MINIMIZE and the maximum under MAXIMIZE; the
\* global best held after a selection is such a member of the swarm as it
\* then is.
C8_GlobalBest ==
    /\ (swarm # << >> /\ data.objType \in ValidObjTypes) =>
           LET g == GetGlobalBest(swarm, data.objType)
           IN  g \in Range(swarm) /\ Extremal(g.fitness, swarm, data.objType)
    /\ pc = "loop" =>
           /\ gBest \in Range(swarm)
           /\ Extremal(gBest.fitness, swarm, data.objType)

\* a MAXIMIZE selection has picked the second, larger particle
C8_Witness ==
    /\ pc = "loop" /\ data.objType = MAXIMIZE /\ Len(swarm) = 2
    /\ swarm[1].fitness < swarm[2].fitness
    /\ gBest = swarm[2]

\* C9: an optimize call with an unrecognised objType only ever throws: it
\* selects no best particle, begins no iteration, notifies nobody and
\* builds no results.
C9_UnrecognisedObjType ==
    data.objType = OTHEROBJ =>
        /\ pc \in {"init", "best", "thrown"}
        /\ gBest = NoParticle /\ uBest = NoParticle
        /\ iters = 0
        /\ particleLog = << >>
        /\ results.call # calls

\* getGlobalBest has thrown on the swarm this call initialized
C9_Witness ==
    /\ pc = "thrown" /\ data.objType = OTHEROBJ
    /\ Len(swarm) = swarmSize /\ swarm[1].born = calls

\* the float nearest to 0.1, 0.3, 0.5, 0.7, 0.9 for k = 1..5
GridValue(k) == RoundToFloat(DecimalTenths(2 * k - 1))

\* the n-th triple of {0.1, 0.3, 0.5, 0.7, 0.9}^3 with inertia outermost and
\* social innermost
GridPoint(n) ==
    <<GridValue(((n - 1) \div 25) + 1),
      GridValue((((n - 1) \div 5) % 5) + 1),
      GridValue(((n - 1) % 5) + 1)>>

\* C4: the n-th grid point the sweep configures is the n-th triple of the
\* grid in the order inertia, cognitive, social; optimize call number
\* 10 (n - 1) + j, j = 1..10, runs under it; the sweep is only cut short by
\* an unrecognised objType; and when it returns it has configured 125 points
\* and called optimize 1250 times.
C4_SweepCoverage ==
    /\ points <= 125
    /\ pc \in {"L1", "L2", "L3"} => calls = NumTrials * points
    /\ pc = "L4" => i <= NumTrials /\ calls = NumTrials * (points - 1) + i
    /\ pc \in {"call", "L4", "init", "best", "loop", "update", "returned",
               "thrown"} =>
           /\ <<c1, c2, c3>> = GridPoint(points)
           /\ <<initialInertia, cognitive, social>> = GridPoint(points)
    /\ pc \in {"init", "best", "loop", "update", "returned", "thrown"} =>
           /\ i < NumTrials
           /\ calls = NumTrials * (points - 1) + i + 1
    /\ pc \in {"loop", "update"} => inertia.base = initialInertia
    /\ pc = "thrown" => problem.objType \notin ValidObjTypes
    /\ pc = "sweepDone" => points = 125 /\ calls = 1250

\* the sweep has returned
C4_Witness == pc = "sweepDone" /\ calls = 1250 /\ done = 1250

\* C10: handleAlgorithm comes only first or after handleResults; optimize is
\* entered only right after handleAlgorithm; handleParticle comes only within
\* a trial; handleResults comes only after the trial's last handleParticle
\* (or its handleAlgorithm) and carries the results that trial's optimize
\* call built; when the sweep returns there were 1250 of each.
C10_TrialEvents ==
    /\ [](pc = "sweepDone" => nAlgorithm = 1250 /\ nResults = 1250)
    /\ [][ /\ nAlgorithm' # nAlgorithm =>
                /\ lastEvent \in {"none", "results"}
                /\ nAlgorithm = nResults
                /\ nAlgorithm' = nAlgorithm + 1
           /\ calls' # calls =>
                /\ lastEvent = "algorithm"
                /\ calls' = nAlgorithm
           /\ Len(particleLog') > Len(particleLog) =>
                /\ lastEvent \in {"algorithm", "particle"}
                /\ lastEvent' = "particle"
                /\ nAlgorithm = nResults + 1
           /\ nResults' # nResults =>
                /\ lastEvent \in {"algorithm", "particle"}
                /\ lastEvent' = "results"
                /\ nResults' = nAlgorithm
                /\ calls = nAlgorithm
                /\ Len(particleLog) = Rounds
                /\ lastResults' = results
                /\ results.call = calls ]_vars

\* the second trial's results have been reported after its notifications
C10_Witness ==
    nResults = 2 /\ lastEvent = "results" /\ Len(particleLog) = 2


\* C11: a notification that fails does not end the call that made it: no
\* optimize call and no sweep is ever left by an exception of the listener.
C11_ListenerFailureContained == ~(lastEvent = "failed" /\ pc = "thrown")

\* C12: with a non-positive swarmSize, hence an empty swarm at selection
\* time, an optimize call only ever throws: it selects nothing, does not
\* crash and returns no results.
C12_EmptySwarmFailsFast ==
    (swarmSize <= 0 /\ calls > 0) =>
        /\ pc \in {"best", "thrown"}
        /\ gBest = NoParticle
        /\ results.call # calls

\* C13: the results a call returns are those of the all-time best at the
\* loop's exit: its fitness, its position, the assignment computed for its
\* position and the problem type, and the type and objType of the input.
C13_ResultsOfBest ==
    [][(pc = "loop" /\ pc' = "returned") =>
          /\ results'.fitness = uBest.fitness
          /\ results'.position = uBest.position
          /\ results'.customerAssignments =
                 AssignmentStrategyAssign(uBest.position, data.type)
          /\ results'.type = data.type
          /\ results'.objType = data.objType]_vars

\* a MINIMIZE call has returned a fitness better than any its final swarm
\* holds: the returned best is not the last global best
C13_Witness ==
    /\ pc = "returned"
    /\ results.call = calls
    /\ data.objType = MINIMIZE
    /\ \A k \in 1..Len(swarm) : results.fitness < swarm[k].fitness

\* C14: whatever optimize calls came before, getJSONParameters writes the
\* fields inertia, cognitive, social, inertialDiscount, swarmSize and
\* maxIterations in this order, and the inertia it writes is the configured
\* initial inertia, not the decayed current one.
C14_JSONInitialInertia ==
    answer.kind = "json" =>
        /\ [k \in 1..Len(answer.value) |-> answer.value[k][1]] =
               <<"inertia", "cognitive", "social", "inertialDiscount",
                 "swarmSize", "maxIterations">>
        /\ answer.value[1][2] = FloatToString(configuredInertia)
        /\ answer.value[2][2] = FloatToString(cognitive)
        /\ answer.value[3][2] = FloatToString(social)
        /\ answer.value[4][2] = RatioToString(inertialDiscount)
        /\ answer.value[5][2] = IntToString(swarmSize)
        /\ answer.value[6][2] = IntToString(maxIterations)

\* the parameters were serialised after a call that decayed the inertia
C14_Witness ==
    /\ answer.kind = "json"
    /\ pc = "returned"
    /\ inertia.den > inertia.num
    /\ answer.value[1][2] = <<"f", 700000>>

\* C16 as stated: calcObjective(facilities) is the objective strategy's value
\* for the assignment of the facilities under the problem type, scored with
\* the data's objType.
C16_ObjectiveByObjType ==
    answer.kind = "objective" =>
        answer.value =
            ObjectiveStrategyCalcObjective(
                AssignmentStrategyAssign(answer.arg, data.type), data.objType)

\* C16, amended: calcObjective(facilities) is the objective strategy's value
\* for the assignment of the facilities under the problem type, scored with
\* the problem type again; the call changes nothing of the optimizer, so
\* the value is a function of the facilities and the bound data alone.
C16_ObjectiveByType ==
    [][(answer' # answer /\ answer'.kind = "objective") =>
          /\ answer'.value =
                 ObjectiveStrategyCalcObjective(
                     AssignmentStrategyAssign(answer'.arg, data.type),
                     data.type)
          /\ UNCHANGED <<params, inertia, data, comparator, swarm, locals,
                         sweepLocals, pc, caller, calls, iters, points,
                         listener, observer>>]_vars

\* calcObjective was called on bound MINIMIZE data of type typeB and returned
\* the typeB score of the assignment
C16_Witness ==
    /\ answer.kind = "objective"
    /\ data = MkData(MINIMIZE, "typeB")
    /\ answer.arg = 1
    /\ answer.value = 1

\* C15: a sweep does not restore the configuration: when it ends, the
\* configured inertia, cognitive and social coefficients are all the last
\* grid value 0.9, whatever they were before; and no step of the sweep
\* changes swarmSize, maxIterations or inertialDiscount.
C15_SweepLeavesLastPoint ==
    [][/\ pc' = "sweepDone" =>
             /\ initialInertia' = GridValue(5)
             /\ cognitive' = GridValue(5)
             /\ social' = GridValue(5)
       /\ UNCHANGED <<swarmSize, maxIterations, inertialDiscount>>]_vars

\* a sweep of two-iteration trials has ended: the configured inertia is 0.9,
\* the current inertia is what the last trial decayed it to
C15_Witness ==
    /\ pc = "sweepDone"
    /\ points = 125
    /\ maxIterations = 2
    /\ initialInertia = GridValue(5)
    /\ inertia.den > inertia.num

\* C17: while the particles of an iteration are being updated the global
\* best stays the one selected before the iteration; it is recomputed only
\* by the step that follows the update of all swarmSize particles, once per
\* iteration (that step ends the iteration), from the swarm as the updates
\* left it.
C17_OneSnapshotPerIteration ==
    [][/\ (pc = "update" /\ swarm' # swarm) =>
             (gBest' = gBest /\ idx <= swarmSize)
       /\ (pc = "update" /\ gBest' # gBest) =>
             /\ idx = swarmSize + 1
             /\ Len(swarm) = swarmSize
             /\ swarm' = swarm
             /\ gBest' = GetGlobalBest(swarm, data.objType)
             /\ count' = count + 1
             /\ pc' = "loop"
       /\ (pc = "update" /\ pc' = "update") => (gBest' = gBest /\ count' = count)
      ]_vars

\* the first of two particles has moved and the swarm's best fitness is no
\* longer the snapshot's, while the second particle is still to be updated
C17_Witness ==
    /\ pc = "update" /\ idx = 2 /\ Len(swarm) = 2
    /\ gBest.fitness # GetGlobalBest(swarm, data.objType).fitness

\* C18: the all-time best is a value of its own: a particle update leaves it
\* as it is, and within the loop it changes only by becoming the newly
\* selected global best whose fitness is strictly preferred to its own.
C18_BestIsCopy ==
    [][/\ (pc = "update" /\ idx <= Len(swarm)) => uBest' = uBest
       /\ (pc = "update" /\ uBest' # uBest) =>
             /\ idx > Len(swarm)
             /\ uBest' = gBest'
             /\ data.objType = MINIMIZE => gBest'.fitness < uBest.fitness
             /\ data.objType = MAXIMIZE => gBest'.fitness > uBest.fitness
      ]_vars

\* in the second iteration the particle that was recorded as the all-time
\* best has moved: no particle of the swarm is at the recorded position
C18_Witness ==
    /\ pc = "update" /\ count = 2 /\ idx > 1
    /\ \A k \in 1..Len(swarm) : swarm[k].position # uBest.position

\* C19: at setup and at the end of every iteration the all-time best fitness
\* is the best of the global-best fitnesses selected so far in the call, and
\* is preferred-or-equal to the best fitness of the swarm as it was built;
\* the fitness of the returned results is the same.
C19_BestNeverLost ==
    /\ pc = "loop" =>
         /\ uBest.fitness = bestSelected
         /\ uBest.fitness = BestOf({uBest.fitness, bestInitial}, data.objType)
    /\ (pc = "returned" /\ results.call = calls) =>
         /\ results.fitness = bestSelected
         /\ results.fitness =
                BestOf({results.fitness, bestInitial}, data.objType)

\* a two-iteration MAXIMIZE call has returned a fitness better than any
\* of its initial swarm, from a final swarm that no longer holds it
C19_Witness ==
    /\ pc = "returned" /\ results.call = calls /\ iters = 2
    /\ data.objType = MAXIMIZE
    /\ results.fitness > bestInitial
    /\ \A k \in 1..Len(swarm) : swarm[k].fitness < results.fitness

\* C20: no step of an optimize call changes social, cognitive,
\* initialInertia, inertialDiscount, swarmSize or maxIterations.
C20_ConfigurationKept ==
    [][UNCHANGED <<social, cognitive, initialInertia, inertialDiscount,
                   swarmSize, maxIterations>>]_vars

\* a second call is under way after a first one that bound other data,
\* rebuilt the swarm and decayed the inertia
C20_Witness ==
    /\ calls = 2 /\ returns = 1 /\ pc = "update" /\ count = 1
    /\ inertia.den > inertia.num
    /\ maxIterations = 2

=============================================================================
